---- MODULE Spec2Model ----
(***************************************************************************)
(* weeports: weekly report from GitLab issues, sent by e-mail.             *)
(*                                                                         *)
(* The model follows the latest snapshot of the program                    *)
(* (src/unnamed/part_001, lines 75-465).  The program is a one-shot,       *)
(* sequential pipeline; one action of the model is the code that runs from *)
(* one interaction with the outside world (an upstream query, a line read  *)
(* from standard input, the SMTP call) up to the next one.                 *)
(*                                                                         *)
(* Strings that are compared or normalised (issue titles, source branches) *)
(* are sequences of ASCII codes.  Report text is a sequence of lines, each *)
(* line a record; every piece of text the program builds ends with a line  *)
(* terminator, so string concatenation is concatenation of line sequences. *)
(***************************************************************************)
EXTENDS Integers, Sequences, FiniteSets, TLC

VARIABLES
    pc,                       \* position of the process in main and its callees
    sec,                      \* which section formatter is on the call stack
    weeks,                    \* the -weeks flag
    closedResponse,           \* upstream answer to the closed-issue query
    weekResponse,             \* upstream answer to the "week" open-issue query
    overdueResponse,          \* upstream answer to the "overdue" open-issue query
    issues,                   \* local `issues` of the running section formatter
    groupedIssues,            \* local `groupedIssues` of the running section formatter
    pending,                  \* groups the range loop has not visited yet
    group,                    \* key of the group the range loop is on
    j,                        \* index of the issue inside the group (0-based)
    projectNameMap,           \* local of formatGroupedIssues
    issueStr,                 \* local of formatGroupedIssues: block under construction
    issuesStrs,               \* local of formatGroupedIssues: finished blocks
    mrIssue,                  \* argument of the last fetchIssueLastMergeRequest call
    mrResponse,               \* upstream answer to the last merge-request query
    mergeRequest,             \* value the last fetchIssueLastMergeRequest returned
    closedLastWeeksIssuesStr, \* main's local
    toCloseWeekIssuesStr,     \* main's local
    difficulties,             \* local of readAndFormatMainDifficulties
    mainDifficulties,         \* main's local
    sent,                     \* bodies handed to sendEmail, in order
    queries,                  \* upstream queries issued so far, in order
    input,                    \* argument of a function applied on its own
    output                    \* the results of applying it, in order

vars == <<pc, sec, weeks, closedResponse, weekResponse, overdueResponse, issues,
          groupedIssues, pending, group, j, projectNameMap, issueStr, issuesStrs,
          mrIssue, mrResponse, mergeRequest, closedLastWeeksIssuesStr,
          toCloseWeekIssuesStr, difficulties, mainDifficulties, sent, queries,
          input, output>>

pipelineVars == <<pc, sec, weeks, closedResponse, weekResponse, overdueResponse, issues,
          groupedIssues, pending, group, j, projectNameMap, issueStr, issuesStrs,
          mrIssue, mrResponse, mergeRequest, closedLastWeeksIssuesStr,
          toCloseWeekIssuesStr, difficulties, mainDifficulties, sent, queries>>

fnVars == <<input, output>>

----------------------------------------------------------------------------
(* Bounds of the model. *)

\* in a run of the whole program
MaxClosed == 2      \* longest closed-issue response
MaxOpen == 1        \* longest "week" / "overdue" response
MaxMRs == 1         \* longest merge-request response
MaxLines == 2       \* most non-blank lines typed as difficulties
\* for a function applied on its own
MaxLen == 3         \* longest string given to slugify
MaxIssues == 3      \* longest list given to the moved-issue filter and the grouping
MaxCandidates == 3  \* longest merge-request list given to the branch filter

----------------------------------------------------------------------------
(* Strings as sequences of ASCII codes. *)

TitleFix42 == <<70, 105, 120, 32, 52, 50>>          \* "Fix 42"
BranchFixDash42 == <<102, 105, 120, 45, 52, 50>>    \* "fix-42"
BranchFix42 == <<70, 105, 120, 52, 50>>             \* "Fix42"
BranchOther == <<111, 116, 104, 101, 114>>          \* "other"

\* 'F' 'f' 'x' '4' '-' ' ' '!'
Alphabet == {70, 102, 120, 52, 45, 32, 33}

SeqsUpTo(S, n) == UNION {[1..k -> S] : k \in 0..n}

\* [a-zA-Z0-9]
IsAlnum(c) == (c >= 48 /\ c <= 57) \/ (c >= 65 /\ c <= 90) \/ (c >= 97 /\ c <= 122)

\* A plausible slip: only the first match is removed (ReplaceString once).
RECURSIVE ReplaceFirstString(_)
ReplaceFirstString(s) ==
    IF s = <<>> THEN <<>>
    ELSE IF ~IsAlnum(Head(s)) THEN Tail(s)
    ELSE <<Head(s)>> \o ReplaceFirstString(Tail(s))

\* regex.ReplaceAllString(inputString, ""): every non-alphanumeric character removed
ReplaceAllString(s) == SelectSeq(s, IsAlnum)

\* strings.ToLower on a string of ASCII letters and digits
ToLower(s) == [k \in 1..Len(s) |-> IF s[k] >= 65 /\ s[k] <= 90 THEN s[k] + 32 ELSE s[k]]

slugify(inputString) == ToLower(ReplaceAllString(inputString))

----------------------------------------------------------------------------
(* The upstream service: issues, merge requests, projects. *)

ProjectIDs == {1, 2}
MovedToIDs == {0, 7}          \* 0: not moved
ClosedDueDates == {0}         \* 0: no due date (nil)
OpenDueDate(p) == IF p = 1 THEN 0 ELSE 5
IssueTitles == {TitleFix42}

Issue(id, p, m, t, d) ==
    [ID |-> id, ProjectID |-> p, MovedToID |-> m, Title |-> t, DueDate |-> d]

ClosedIssueFields == ProjectIDs \X MovedToIDs \X IssueTitles \X ClosedDueDates
OpenIssueFields == {<<p, 0, t, OpenDueDate(p)>> : p \in ProjectIDs, t \in IssueTitles}

\* Lists of at most n distinct issues; the k-th has identifier base + k.
IssueLists(base, fields, n) ==
    UNION {{[k \in 1..len |-> Issue(base + k, f[k][1], f[k][2], f[k][3], f[k][4])] :
                f \in [1..len -> fields]} : len \in 0..n}

ClosedResponses == IssueLists(0, ClosedIssueFields, MaxClosed)
WeekResponses == IssueLists(10, OpenIssueFields, MaxOpen)
\* The "overdue" query may return issues the "week" query returned as well.
OverdueResponses(week) ==
    UNION {[1..len -> {week[k] : k \in 1..Len(week)}
                       \cup {Issue(20 + k, f[1], f[2], f[3], f[4]) :
                                k \in 1..len, f \in OpenIssueFields}] :
             len \in 0..MaxOpen}

NilMR == [ID |-> 0, SourceBranch |-> <<>>]     \* a nil *gitlab.MergeRequest
NilIssue == Issue(0, 0, 0, <<>>, 0)            \* no call made yet
MergeRequest(id, branch) == [ID |-> id, SourceBranch |-> branch]
MergeRequests ==
    {MergeRequest(1, BranchFixDash42), MergeRequest(2, BranchFix42),
     MergeRequest(3, BranchOther)}
MRResponses == SeqsUpTo(MergeRequests, MaxMRs)

ProjectName(p) == IF p = 1 THEN "P1" ELSE "P2"
\* Projects with activity in the last 7 days: any subset of the projects.
ProjectLists == {[p \in S |-> ProjectName(p)] : S \in SUBSET ProjectIDs}

----------------------------------------------------------------------------
(* Go slices and maps. *)

\* A plausible slip: the unordered delete, the last element moved into the gap.
slicesDeleteUnordered(s, i, jj) ==
    [k \in 1..(Len(s) - 1) |-> IF k = i + 1 THEN s[Len(s)] ELSE s[k]]

\* slices.Delete(s, i, j): s without s[i:j] (0-based, j exclusive)
slicesDelete(s, i, jj) == SubSeq(s, 1, i) \o SubSeq(s, jj + 1, Len(s))

\* m[k] of a Go map: the zero value when k is absent
MapGet(m, k, zero) == IF k \in DOMAIN m THEN m[k] ELSE zero

MapPut(m, k, v) == [x \in DOMAIN m \cup {k} |-> IF x = k THEN v ELSE m[x]]

EmptyMap == [x \in {} |-> 0]

----------------------------------------------------------------------------
(* fetchClosedLastWeeksIssues: the loop that removes moved issues. *)

\* for i := 0; i < len(issues); i++ { if issues[i].MovedToID != 0 { delete i } }
RECURSIVE movedLoop(_, _)
movedLoop(iss, i) ==
    IF ~(i < Len(iss)) THEN iss
    ELSE IF iss[i + 1].MovedToID # 0
         THEN movedLoop(slicesDelete(iss, i, i + 1), i + 1)
         ELSE movedLoop(iss, i + 1)

filterMoved(iss) == movedLoop(iss, 0)

----------------------------------------------------------------------------
(* groupIssuesByProject *)

RECURSIVE groupLoop(_, _, _)
groupLoop(iss, i, projectIssues) ==
    IF ~(i < Len(iss)) THEN projectIssues
    ELSE groupLoop(iss, i + 1,
             MapPut(projectIssues, iss[i + 1].ProjectID,
                    Append(MapGet(projectIssues, iss[i + 1].ProjectID, <<>>), iss[i + 1])))

\* A plausible slip: projectIssues[id] = []*Issue{issue} instead of the append.
RECURSIVE overwriteLoop(_, _, _)
overwriteLoop(iss, i, projectIssues) ==
    IF ~(i < Len(iss)) THEN projectIssues
    ELSE overwriteLoop(iss, i + 1,
             MapPut(projectIssues, iss[i + 1].ProjectID, <<iss[i + 1]>>))

groupIssuesOverwriting(iss) == overwriteLoop(iss, 0, EmptyMap)

groupIssuesByProject(iss) == groupLoop(iss, 0, EmptyMap)

----------------------------------------------------------------------------
(* fetchIssueLastMergeRequest: the part after the upstream answer. *)

RECURSIVE branchLoop(_, _, _)
branchLoop(mrs, i, issueTitleCleaned) ==
    IF ~(i < Len(mrs)) THEN mrs
    ELSE IF slugify(mrs[i + 1].SourceBranch) # issueTitleCleaned
         THEN branchLoop(slicesDelete(mrs, i, i + 1), i + 1, issueTitleCleaned)
         ELSE branchLoop(mrs, i + 1, issueTitleCleaned)

lastMergeRequest(issue, mrs) ==
    LET kept == branchLoop(mrs, 0, slugify(issue.Title))
    IN  IF Len(kept) = 0 THEN NilMR ELSE kept[Len(kept)]

----------------------------------------------------------------------------
(* Report text: a sequence of lines. *)

Line(kind, id, name, title, due) ==
    [kind |-> kind, id |-> id, name |-> name, title |-> title, due |-> due]

BlankLine == Line("blank", 0, "", <<>>, 0)                        \* "\r\n"

\* A plausible slip: `name, ok := projectNameMap[group]`, no header without a name.
projectHeaderIfNamed(names, g) ==
    IF g \in DOMAIN names THEN <<Line("project", g, names[g], <<>>, 0)>> ELSE <<>>

\* "#### " + projectNameMap[group] + ":\r\n"
projectHeader(names, g) == <<Line("project", g, MapGet(names, g, ""), <<>>, 0)>>

\* A plausible slip: the due date left out.
issueLinesWithoutDueDate(issue) == <<Line("issue", issue.ID, "", issue.Title, 0)>>

\* "  * [" + Title + "](" + WebURL + ")\r\n", then the due date line if there is one
issueLines(issue) ==
    <<Line("issue", issue.ID, "", issue.Title, 0)>>
    \o (IF issue.DueDate # 0 THEN <<Line("due", issue.ID, "", <<>>, issue.DueDate)>>
        ELSE <<>>)

\* "    * Merge request: [" + Title + "](" + WebURL + ")\r\n" unless nil
mergeRequestLines(mr) ==
    IF mr # NilMR THEN <<Line("mr", mr.ID, "", mr.SourceBranch, 0)>> ELSE <<>>

\* strings.Join(issuesStrs, "")
RECURSIVE stringsJoin(_)
stringsJoin(strs) == IF strs = <<>> THEN <<>> ELSE Head(strs) \o stringsJoin(Tail(strs))

\* title := "### Issues closed last week:\r\n\r\n" (or "in the last N weeks")
closedTitle(w) == <<Line("closedTitle", w, "", <<>>, 0), BlankLine>>
toCloseTitle == <<Line("toCloseTitle", 0, "", <<>>, 0), BlankLine>>
mainDifficultiesStr == <<Line("difficultiesTitle", 0, "", <<>>, 0)>>

\* A plausible slip: `return title + body`, the closing "\r\n" forgotten.
sectionTextUnclosed(s, w, strs) ==
    (IF s = "closed" THEN closedTitle(w) ELSE toCloseTitle) \o stringsJoin(strs)

\* A section formatter's result: title + body + "\r\n"
sectionText(s, w, strs) ==
    (IF s = "closed" THEN closedTitle(w) ELSE toCloseTitle) \o stringsJoin(strs) \o <<BlankLine>>

----------------------------------------------------------------------------
(* The process. *)

PipelineInit ==
    /\ pc = "formatClosed"
    /\ sec = "closed"
    /\ weeks = 1
    /\ closedResponse = <<>>
    /\ weekResponse = <<>>
    /\ overdueResponse = <<>>
    /\ issues = <<>>
    /\ groupedIssues = EmptyMap
    /\ pending = {}
    /\ group = 0
    /\ j = 0
    /\ projectNameMap = EmptyMap
    /\ issueStr = <<>>
    /\ issuesStrs = <<>>
    /\ mrIssue = NilIssue
    /\ mrResponse = <<>>
    /\ mergeRequest = NilMR
    /\ closedLastWeeksIssuesStr = <<>>
    /\ toCloseWeekIssuesStr = <<>>
    /\ difficulties = <<>>
    /\ mainDifficulties = <<>>
    /\ sent = <<>>
    /\ queries = <<>>

Init ==
    /\ PipelineInit
    /\ input = <<>>
    /\ output = <<>>

\* log.Fatal: the process exits where it stands.
Fatal ==
    /\ pc' = "fatal"
    /\ UNCHANGED <<sec, weeks, closedResponse, weekResponse, overdueResponse, issues,
                   groupedIssues, pending, group, j, projectNameMap, issueStr, issuesStrs,
                   mrIssue, mrResponse, mergeRequest, closedLastWeeksIssuesStr,
                   toCloseWeekIssuesStr, difficulties, mainDifficulties, sent>>

\* An entry of the query log: which query, whether it was answered with
\* success, and the issue it asks about (ListProjectMergeRequests for an issue).
QueryAbout(q, ok, id) == [kind |-> q, ok |-> ok, issue |-> id]

\* The query the process makes where it stands: fetchIssueLastMergeRequest is
\* called with the issue the inner loop of formatGroupedIssues is at.
Query(q, ok) ==
    QueryAbout(q, ok, IF q = "mergeRequests" THEN groupedIssues[group][j + 1].ID ELSE 0)

\* A plausible slip: the error is logged (log.Print) and the run goes on
\* without the section.
QueryFailsLogged(q) ==
    /\ queries' = Append(queries, Query(q, FALSE))
    /\ pc' = "readDifficulties"
    /\ UNCHANGED <<sec, weeks, closedResponse, weekResponse, overdueResponse, issues,
                   groupedIssues, pending, group, j, projectNameMap, issueStr, issuesStrs,
                   mrIssue, mrResponse, mergeRequest, closedLastWeeksIssuesStr,
                   toCloseWeekIssuesStr, difficulties, mainDifficulties, sent>>

\* An upstream query q answered by a transport error or a status other than 200:
\* `if err != nil || response.StatusCode != 200 { log.Fatal(err) }`
QueryFails(q) ==
    /\ queries' = Append(queries, Query(q, FALSE))
    /\ Fatal

\* A plausible slip: the `len(issues) == 0` early returns are missing.
formatIssuesAlways(s, iss) ==
    /\ issues' = iss
    /\ pc' = "fetchProjectNameMap"
    /\ groupedIssues' = groupIssuesByProject(iss)
    /\ UNCHANGED <<closedLastWeeksIssuesStr, toCloseWeekIssuesStr>>

\* A section formatter once it holds its issues: "" when there are none,
\* otherwise group them and go on to formatGroupedIssues.
formatIssues(s, iss) ==
    /\ issues' = iss
    /\ IF Len(iss) = 0 \/ DOMAIN groupIssuesByProject(iss) = {}
       THEN /\ pc' = IF s = "closed" THEN "formatToClose" ELSE "readDifficulties"
            /\ closedLastWeeksIssuesStr' =
                   IF s = "closed" THEN <<>> ELSE closedLastWeeksIssuesStr
            /\ toCloseWeekIssuesStr' = IF s = "closed" THEN toCloseWeekIssuesStr ELSE <<>>
            /\ UNCHANGED groupedIssues
       ELSE /\ pc' = "fetchProjectNameMap"
            /\ groupedIssues' = groupIssuesByProject(iss)
            /\ UNCHANGED <<closedLastWeeksIssuesStr, toCloseWeekIssuesStr>>

\* main calls formatClosedLastWeeksIssues, which calls fetchClosedLastWeeksIssues.
FormatClosedLastWeeksIssues ==
    /\ pc = "formatClosed"
    /\ \/ QueryFails("closed")
       \/ \E resp \in ClosedResponses :
            /\ queries' = Append(queries, Query("closed", TRUE))
            /\ closedResponse' = resp
            /\ sec' = "closed"
            /\ formatIssues("closed", filterMoved(resp))
            /\ UNCHANGED <<weeks, weekResponse, overdueResponse, pending, group, j,
                           projectNameMap, issueStr, issuesStrs, mrIssue, mrResponse,
                           mergeRequest, difficulties, mainDifficulties, sent>>

\* formatToCloseThisWeekIssues -> fetchToCloseThisWeekIssues: the "week" query
FetchOpenIssuesOnDueDateWeek ==
    /\ pc = "formatToClose"
    /\ \/ QueryFails("week")
       \/ \E resp \in WeekResponses :
            /\ queries' = Append(queries, Query("week", TRUE))
            /\ weekResponse' = resp
            /\ sec' = "toClose"
            /\ pc' = "fetchOverdue"
            /\ UNCHANGED <<weeks, closedResponse, overdueResponse, issues, groupedIssues,
                           pending, group, j, projectNameMap, issueStr, issuesStrs,
                           mrIssue, mrResponse, mergeRequest, closedLastWeeksIssuesStr,
                           toCloseWeekIssuesStr, difficulties, mainDifficulties, sent>>

\* A plausible slip (the TODO of an earlier snapshot): duplicates removed.
toCloseDeduplicated(week, overdue) ==
    week \o SelectSeq(overdue, LAMBDA o : \A k \in 1..Len(week) : week[k] # o)

\* issues = append(issues, week...); issues = append(issues, overdue...)
toCloseThisWeekIssues(week, overdue) == (<<>> \o week) \o overdue

\* the "overdue" query, then the rest of formatToCloseThisWeekIssues
FetchOpenIssuesOnDueDateOverdue ==
    /\ pc = "fetchOverdue"
    /\ \/ QueryFails("overdue")
       \/ \E resp \in OverdueResponses(weekResponse) :
            /\ queries' = Append(queries, Query("overdue", TRUE))
            /\ overdueResponse' = resp
            /\ formatIssues("toClose", toCloseThisWeekIssues(weekResponse, resp))
            /\ UNCHANGED <<sec, weeks, closedResponse, weekResponse, pending, group, j,
                           projectNameMap, issueStr, issuesStrs, mrIssue, mrResponse,
                           mergeRequest, difficulties, mainDifficulties, sent>>

\* A plausible slip: the inner loop runs over the group from its last issue.
enterGroupAtLastIssue(rest, names, strs) ==
    \E g \in rest :
        /\ group' = g
        /\ j' = Len(groupedIssues[g]) - 1
        /\ pending' = rest \ {g}
        /\ issueStr' = projectHeader(names, g) \o issueLines(groupedIssues[g][1])
        /\ issuesStrs' = strs
        /\ pc' = "fetchMergeRequest"

\* The range loop of formatGroupedIssues enters a group: the header line, then
\* the first issue's lines, up to its call of fetchIssueLastMergeRequest.
\* Go leaves the order in which range visits a map unspecified.
enterGroup(rest, names, strs) ==
    \E g \in rest :
        /\ group' = g
        /\ j' = 0
        /\ pending' = rest \ {g}
        /\ issueStr' = projectHeader(names, g) \o issueLines(groupedIssues[g][1])
        /\ issuesStrs' = strs
        /\ pc' = "fetchMergeRequest"

\* Groups of length 0 are skipped by the loop (`continue`).
nonEmptyGroups(grouped) == {g \in DOMAIN grouped : Len(grouped[g]) # 0}

\* formatGroupedIssues: fetchProjectNameMap, then into the range loop
FetchProjectNameMap ==
    /\ pc = "fetchProjectNameMap"
    /\ \/ QueryFails("projects")
       \/ \E names \in ProjectLists :
            /\ queries' = Append(queries, Query("projects", TRUE))
            /\ projectNameMap' = names
            /\ IF nonEmptyGroups(groupedIssues) = {}
               THEN /\ pc' = "return"
                    /\ UNCHANGED <<group, j, pending, issueStr, issuesStrs>>
               ELSE enterGroup(nonEmptyGroups(groupedIssues), names, <<>>)
            /\ UNCHANGED <<sec, weeks, closedResponse, weekResponse, overdueResponse,
                           issues, groupedIssues, mrIssue, mrResponse, mergeRequest,
                           closedLastWeeksIssuesStr, toCloseWeekIssuesStr, difficulties,
                           mainDifficulties, sent>>

\* fetchIssueLastMergeRequest for issue j of the group, then the loop up to the
\* next call: the merge-request line, the next issue or the next group.
FetchIssueLastMergeRequest ==
    /\ pc = "fetchMergeRequest"
    /\ \/ QueryFails("mergeRequests")
       \/ \E resp \in MRResponses :
            LET issue == groupedIssues[group][j + 1]
                mr == lastMergeRequest(issue, resp)
                str == issueStr \o mergeRequestLines(mr)
            IN  /\ queries' = Append(queries, Query("mergeRequests", TRUE))
                /\ mrIssue' = issue
                /\ mrResponse' = resp
                /\ mergeRequest' = mr
                /\ IF j + 1 < Len(groupedIssues[group])
                   THEN /\ j' = j + 1
                        /\ issueStr' = str \o issueLines(groupedIssues[group][j + 2])
                        /\ pc' = "fetchMergeRequest"
                        /\ UNCHANGED <<group, pending, issuesStrs>>
                   ELSE IF pending = {}
                        THEN /\ issuesStrs' = Append(issuesStrs, str)
                             /\ pc' = "return"
                             /\ UNCHANGED <<group, j, pending, issueStr>>
                        ELSE enterGroup(pending, projectNameMap, Append(issuesStrs, str))
                /\ UNCHANGED <<sec, weeks, closedResponse, weekResponse, overdueResponse,
                               issues, groupedIssues, projectNameMap,
                               closedLastWeeksIssuesStr, toCloseWeekIssuesStr,
                               difficulties, mainDifficulties, sent>>

\* formatGroupedIssues returns its joined blocks; the section formatter returns
\* title + body + "\r\n" to main, and the locals of both frames are gone.
SectionReturn ==
    /\ pc = "return"
    /\ IF sec = "closed"
       THEN /\ closedLastWeeksIssuesStr' = sectionText(sec, weeks, issuesStrs)
            /\ pc' = "formatToClose"
            /\ UNCHANGED toCloseWeekIssuesStr
       ELSE /\ toCloseWeekIssuesStr' = sectionText(sec, weeks, issuesStrs)
            /\ pc' = "readDifficulties"
            /\ UNCHANGED closedLastWeeksIssuesStr
    /\ issues' = <<>>
    /\ groupedIssues' = EmptyMap
    /\ pending' = {}
    /\ group' = 0
    /\ j' = 0
    /\ projectNameMap' = EmptyMap
    /\ issueStr' = <<>>
    /\ issuesStrs' = <<>>
    /\ mrIssue' = NilIssue
    /\ mrResponse' = <<>>
    /\ mergeRequest' = NilMR
    /\ UNCHANGED <<sec, weeks, closedResponse, weekResponse, overdueResponse,
                   difficulties, mainDifficulties, sent, queries>>

----------------------------------------------------------------------------
(* readAndFormatMainDifficulties *)

IsSpace(c) == c \in {9, 10, 11, 12, 13, 32}

RECURSIVE TrimLeft(_)
TrimLeft(s) == IF s # <<>> /\ IsSpace(Head(s)) THEN TrimLeft(Tail(s)) ELSE s

RECURSIVE TrimRight(_)
TrimRight(s) ==
    IF s # <<>> /\ IsSpace(s[Len(s)]) THEN TrimRight(SubSeq(s, 1, Len(s) - 1)) ELSE s

\* strings.TrimSpace
TrimSpace(s) == TrimRight(TrimLeft(s))

\* What ReadString('\n') can return with a nil error: a line with its "\n".
\* "", " ", "\r" and "hard", each followed by the newline
StdinLines == {<<10>>, <<32, 10>>, <<13, 10>>, <<104, 97, 114, 100, 10>>}

\* "  * " + difficulty
bullet(difficulty) == <<Line("bullet", 0, "", difficulty, 0)>>

\* A plausible slip: the `len(strings.TrimSpace(difficulties)) == 0` return is missing.
formatMainDifficultiesAlways(d) == mainDifficultiesStr \o d \o <<BlankLine>>

\* the text after the loop: "" when nothing but white space was collected
\* (a bullet holds a '*', so that is when no bullet was collected)
formatMainDifficulties(d) ==
    IF Len(d) = 0 THEN <<>> ELSE mainDifficultiesStr \o d \o <<BlankLine>>

\* What bufio's ReadString('\n') hands back at the end of the input: the bytes
\* left (here none) and io.EOF.
StdinEOF == <<>>

\* `err != nil`: ReadString returns an error exactly when what it returns
\* does not end in the delimiter.
readErr(difficulty) == Len(difficulty) = 0 \/ difficulty[Len(difficulty)] # 10

\* A plausible slip: io.EOF taken for the end of the text, `break` instead of
\* log.Fatal.
readDifficultyUntilEOF(difficulty) ==
    /\ IF readErr(difficulty) \/ Len(TrimSpace(difficulty)) = 0
       THEN /\ mainDifficulties' = formatMainDifficulties(difficulties)
            /\ pc' = "sendEmail"
            /\ UNCHANGED difficulties
       ELSE /\ Len(difficulties) < MaxLines
            /\ difficulties' = difficulties \o bullet(difficulty)
            /\ UNCHANGED <<pc, mainDifficulties>>
    /\ UNCHANGED <<sec, weeks, closedResponse, weekResponse, overdueResponse,
                   issues, groupedIssues, pending, group, j, projectNameMap,
                   issueStr, issuesStrs, mrIssue, mrResponse, mergeRequest,
                   closedLastWeeksIssuesStr, toCloseWeekIssuesStr, sent, queries>>

\* The body of the loop once ReadString has returned: fatal / break / append.
readDifficulty(difficulty) ==
    IF readErr(difficulty)
    THEN /\ Fatal
         /\ UNCHANGED queries
    ELSE /\ IF Len(TrimSpace(difficulty)) = 0
            THEN /\ mainDifficulties' = formatMainDifficulties(difficulties)
                 /\ pc' = "sendEmail"
                 /\ UNCHANGED difficulties
            ELSE /\ Len(difficulties) < MaxLines
                 /\ difficulties' = difficulties \o bullet(difficulty)
                 /\ UNCHANGED <<pc, mainDifficulties>>
         /\ UNCHANGED <<sec, weeks, closedResponse, weekResponse, overdueResponse,
                        issues, groupedIssues, pending, group, j, projectNameMap,
                        issueStr, issuesStrs, mrIssue, mrResponse, mergeRequest,
                        closedLastWeeksIssuesStr, toCloseWeekIssuesStr, sent, queries>>

\* One turn of the loop.
ReadString ==
    /\ pc = "readDifficulties"
    /\ \E difficulty \in StdinLines \cup {StdinEOF} : readDifficulty(difficulty)

\* A plausible slip: the operands in another order.
reportBodySwapped(closed, toClose, main) == toClose \o closed \o main

\* closedLastWeeksIssuesStr + toCloseWeekIssuesStr + mainDifficulties
reportBody(closed, toClose, main) == closed \o toClose \o main

\* A plausible slip: main sends nothing when there is nothing to report.
SendEmailUnlessEmpty ==
    /\ pc = "sendEmail"
    /\ LET body == reportBody(closedLastWeeksIssuesStr, toCloseWeekIssuesStr,
                              mainDifficulties)
       IN  IF body = <<>>
           THEN /\ pc' = "done"
                /\ UNCHANGED sent
           ELSE /\ sent' = Append(sent, body)
                /\ pc' \in {"done", "fatal"}
    /\ UNCHANGED <<sec, weeks, closedResponse, weekResponse, overdueResponse, issues,
                   groupedIssues, pending, group, j, projectNameMap, issueStr, issuesStrs,
                   mrIssue, mrResponse, mergeRequest, closedLastWeeksIssuesStr,
                   toCloseWeekIssuesStr, difficulties, mainDifficulties, queries>>

\* sendEmail(body): smtp.SendMail succeeds, or fails and the process dies.
SendEmail ==
    /\ pc = "sendEmail"
    /\ sent' = Append(sent, reportBody(closedLastWeeksIssuesStr, toCloseWeekIssuesStr,
                                       mainDifficulties))
    /\ pc' \in {"done", "fatal"}
    /\ UNCHANGED <<sec, weeks, closedResponse, weekResponse, overdueResponse, issues,
                   groupedIssues, pending, group, j, projectNameMap, issueStr, issuesStrs,
                   mrIssue, mrResponse, mergeRequest, closedLastWeeksIssuesStr,
                   toCloseWeekIssuesStr, difficulties, mainDifficulties, queries>>

Next ==
    \/ (FormatClosedLastWeeksIssues /\ UNCHANGED fnVars)
    \/ (FetchProjectNameMap /\ UNCHANGED fnVars)
    \/ (FetchIssueLastMergeRequest /\ UNCHANGED fnVars)
    \/ (SectionReturn /\ UNCHANGED fnVars)
    \/ (FetchOpenIssuesOnDueDateWeek /\ UNCHANGED fnVars)
    \/ (FetchOpenIssuesOnDueDateOverdue /\ UNCHANGED fnVars)
    \/ (ReadString /\ UNCHANGED fnVars)
    \/ (SendEmail /\ UNCHANGED fnVars)

Spec == Init /\ [][Next]_vars

----------------------------------------------------------------------------
(* Functions applied on their own, to arguments drawn from bounded sets. *)

\* slugify, then slugify of the result
SlugInit ==
    /\ PipelineInit
    /\ input \in SeqsUpTo(Alphabet, MaxLen)
    /\ output = <<>>

Slugify ==
    /\ output = <<>>
    /\ output' = <<slugify(input)>>
    /\ UNCHANGED <<input, pipelineVars>>

SlugifyAgain ==
    /\ Len(output) = 1
    /\ output' = Append(output, slugify(output[1]))
    /\ UNCHANGED <<input, pipelineVars>>

SlugNext == Slugify \/ SlugifyAgain

SlugSpec == SlugInit /\ [][SlugNext]_vars

\* the moved-issue filter of fetchClosedLastWeeksIssues on an upstream answer
FilterInit ==
    /\ PipelineInit
    /\ input \in IssueLists(0, ClosedIssueFields, MaxIssues)
    /\ output = <<>>

FilterMoved ==
    /\ output = <<>>
    /\ output' = <<filterMoved(input)>>
    /\ UNCHANGED <<input, pipelineVars>>

FilterSpec == FilterInit /\ [][FilterMoved]_vars

\* groupIssuesByProject on a list of issues
GroupInit ==
    /\ PipelineInit
    /\ input \in IssueLists(0, ClosedIssueFields, MaxIssues)
    /\ output = <<>>

GroupIssuesByProject ==
    /\ output = <<>>
    /\ output' = <<groupIssuesByProject(input)>>
    /\ UNCHANGED <<input, pipelineVars>>

GroupSpec == GroupInit /\ [][GroupIssuesByProject]_vars

\* fetchIssueLastMergeRequest on an issue and an upstream answer
TitleOther == <<79, 116, 104, 101, 114, 33>>        \* "Other!"

LastMRInit ==
    /\ PipelineInit
    /\ input \in {<<Issue(1, 1, 0, t, 0), mrs>> :
                    t \in {TitleFix42, TitleOther},
                    mrs \in SeqsUpTo(MergeRequests, MaxCandidates)}
    /\ output = <<>>

LastMergeRequest ==
    /\ output = <<>>
    /\ output' = <<lastMergeRequest(input[1], input[2])>>
    /\ UNCHANGED <<input, pipelineVars>>

LastMRSpec == LastMRInit /\ [][LastMergeRequest]_vars

----------------------------------------------------------------------------
(* Properties. *)

\* C1 (FilterSpec): the list the closed-issue fetch returns holds no issue
\* whose MovedToID is non-zero, whatever list the upstream service returned.
C1_NoMovedIssueReturned ==
    output # <<>> => \A k \in 1..Len(output[1]) : output[1][k].MovedToID = 0

\* the indices of the candidates whose slugified branch is the slugified title
Matching(issue, mrs) ==
    {k \in 1..Len(mrs) : slugify(mrs[k].SourceBranch) = slugify(issue.Title)}

Max(S) == CHOOSE m \in S : \A n \in S : n <= m
Min(S) == CHOOSE m \in S : \A n \in S : m <= n

\* C2 (LastMRSpec): when no candidate's slugified source branch equals the
\* slugified issue title, fetchIssueLastMergeRequest returns nil; it never
\* returns a merge request whose slugified branch differs from the title's.
C2_NilWhenNoCandidateMatches ==
    output # <<>> =>
        /\ Matching(input[1], input[2]) = {} => output[1] = NilMR
        /\ output[1] # NilMR => slugify(output[1].SourceBranch) = slugify(input[1].Title)

\* C3 (LastMRSpec): when at least one candidate matches,
\* fetchIssueLastMergeRequest returns the matching candidate that is last in
\* the upstream order.
C3_LastMatchingCandidate ==
    (output # <<>> /\ Matching(input[1], input[2]) # {}) =>
        output[1] = input[2][Max(Matching(input[1], input[2]))]

\* the issues of a list whose project is p, in the list's order
OfProject(iss, p) == SelectSeq(iss, LAMBDA x : x.ProjectID = p)

RECURSIVE SumLen(_, _)
SumLen(m, keys) ==
    IF keys = {} THEN 0
    ELSE LET k == CHOOSE x \in keys : TRUE IN Len(m[k]) + SumLen(m, keys \ {k})

\* C6 (GroupSpec): groupIssuesByProject returns a mapping whose keys are the
\* project identifiers of the input and whose value for p is the input's
\* issues of project p in input order; group lengths sum to the input length
\* and no group is empty.
C6_GroupsPartitionInput ==
    output # <<>> =>
        /\ DOMAIN output[1] = {input[k].ProjectID : k \in 1..Len(input)}
        /\ \A p \in DOMAIN output[1] :
               /\ output[1][p] = OfProject(input, p)
               /\ Len(output[1][p]) > 0
        /\ SumLen(output[1], DOMAIN output[1]) = Len(input)

\* two groups, one of them with two issues
C6_Witness ==
    /\ output # <<>>
    /\ Cardinality(DOMAIN output[1]) = 2
    /\ \E p \in DOMAIN output[1] : Len(output[1][p]) = 2

\* C10 (SlugSpec): slugify(slugify(x)) = slugify(x) for every string x of
\* letters of both cases, digits, punctuation and spaces.
C10_SlugifyIdempotent ==
    Len(output) = 2 => output[2] = output[1]

\* slugify applied twice to a string with an upper-case letter and two
\* characters that are neither letters nor digits
C10_Witness ==
    /\ Len(output) = 2
    /\ \E k \in 1..Len(input) : input[k] >= 65 /\ input[k] <= 90
    /\ Cardinality({k \in 1..Len(input) : ~IsAlnum(input[k])}) = 2

\* the positions of the lines of one kind in a text
LinesOf(text, kind) == {k \in 1..Len(text) : text[k].kind = kind}

TitleKinds == {"closedTitle", "toCloseTitle", "difficultiesTitle"}

\* closed-issues, then due-this-week, then difficulties
Rank(kind) ==
    IF kind = "closedTitle" THEN 1 ELSE IF kind = "toCloseTitle" THEN 2 ELSE 3

Failed == {k \in 1..Len(queries) : ~queries[k].ok}

\* C4 (Spec): once an upstream query (closed issues, either open-issue query,
\* the project list, a merge-request list) has failed, the process is dead and
\* sendEmail has not been and is never invoked.
C4_FailedQueryIsFatalAndNothingIsSent ==
    Failed # {} => (pc = "fatal" /\ sent = <<>>)

\* a merge-request query failed after the closed-issues section was complete
C4_Witness ==
    /\ \E k \in Failed : queries[k].kind = "mergeRequests"
    /\ closedLastWeeksIssuesStr # <<>>
    /\ sec = "toClose"

\* C5 (Spec): the body of a sent e-mail is the concatenation of the non-empty
\* sections in the order closed-issues, due-this-week, difficulties: every
\* section heading occurs at most once, the headings occur in that order, a
\* section is present exactly when it is not empty, every heading is followed
\* by content (no bare heading) and nothing precedes the first heading.
C5_SectionsInFixedOrder ==
    sent # <<>> =>
        LET body == sent[1]
            titles == {k \in 1..Len(body) : body[k].kind \in TitleKinds}
        IN  /\ \A a, b \in titles : a < b => Rank(body[a].kind) < Rank(body[b].kind)
            /\ body # <<>> => 1 \in titles
            /\ LinesOf(body, "closedTitle") # {} <=> closedLastWeeksIssuesStr # <<>>
            /\ LinesOf(body, "toCloseTitle") # {} <=> toCloseWeekIssuesStr # <<>>
            /\ LinesOf(body, "difficultiesTitle") # {} <=> mainDifficulties # <<>>
            /\ \A k \in titles :
                   IF body[k].kind = "difficultiesTitle"
                   THEN k + 1 <= Len(body) /\ body[k + 1].kind = "bullet"
                   ELSE /\ k + 2 <= Len(body)
                        /\ body[k + 1] = BlankLine
                        /\ body[k + 2].kind = "project"
            /\ \A k \in titles :
                   LET next == {n \in titles : n > k}
                       end == IF next = {} THEN Len(body) ELSE Min(next) - 1
                       text == SubSeq(body, k, end)
                   IN  text = IF body[k].kind = "closedTitle" THEN closedLastWeeksIssuesStr
                              ELSE IF body[k].kind = "toCloseTitle" THEN toCloseWeekIssuesStr
                              ELSE mainDifficulties

\* an e-mail whose body holds all three sections
C5_Witness ==
    /\ sent # <<>>
    /\ \A kind \in TitleKinds : LinesOf(sent[1], kind) # {}

\* an e-mail whose body holds the second and third sections only
C5_WitnessWithoutClosed ==
    /\ sent # <<>>
    /\ LinesOf(sent[1], "closedTitle") = {}
    /\ LinesOf(sent[1], "toCloseTitle") # {}
    /\ LinesOf(sent[1], "difficultiesTitle") # {}

ToCloseFetched ==
    sec = "toClose" /\ pc \in {"fetchProjectNameMap", "fetchMergeRequest", "return"}

ToCloseFormatted == pc \in {"readDifficulties", "sendEmail", "done"}

\* how many elements of a sequence satisfy x.id = id / x.ID = id
CountID(iss, id) == Cardinality({k \in 1..Len(iss) : iss[k].ID = id})
CountIssueLines(text, id) ==
    Cardinality({k \in LinesOf(text, "issue") : text[k].id = id})

\* C7 (Spec): fetchToCloseThisWeekIssues returns the answer to the "week"
\* query followed by the answer to the "overdue" query, nothing removed: its
\* length is the sum of both lengths, and an issue both queries returned is
\* there twice, and twice in the due-this-week section.
C7_WeekThenOverdueWithDuplicates ==
    /\ ToCloseFetched =>
           /\ Len(issues) = Len(weekResponse) + Len(overdueResponse)
           /\ \A k \in 1..Len(weekResponse) : issues[k] = weekResponse[k]
           /\ \A k \in 1..Len(overdueResponse) :
                  issues[Len(weekResponse) + k] = overdueResponse[k]
    /\ ToCloseFormatted =>
           \A id \in {weekResponse[k].ID : k \in 1..Len(weekResponse)}
                     \cup {overdueResponse[k].ID : k \in 1..Len(overdueResponse)}
                     \cup {toCloseWeekIssuesStr[k].id :
                               k \in LinesOf(toCloseWeekIssuesStr, "issue")} :
               CountIssueLines(toCloseWeekIssuesStr, id) =
                   CountID(weekResponse, id) + CountID(overdueResponse, id)

\* the section is complete and shows twice the issue both queries returned
C7_Witness ==
    /\ ToCloseFormatted
    /\ Len(weekResponse) = 1
    /\ overdueResponse = weekResponse
    /\ CountIssueLines(toCloseWeekIssuesStr, weekResponse[1].ID) = 2

\* C8 (Spec): when every closed issue the upstream service returned has a
\* non-zero MovedToID, the closed-issues section is the empty string and the
\* report holds no closed-issues heading.
C8_AllMovedMeansNoClosedSection ==
    (/\ sent # <<>>
     /\ closedResponse # <<>>
     /\ \A k \in 1..Len(closedResponse) : closedResponse[k].MovedToID # 0)
    => (closedLastWeeksIssuesStr = <<>> /\ LinesOf(sent[1], "closedTitle") = {})

\* C9 (Spec): when the issue list a section formatter obtained is empty, the
\* formatter returns the empty string and issues neither a project-name query
\* nor a merge-request query: after an empty closed list the next query, if
\* any, is the "week" query, and after an empty due-this-week list there is
\* no further query.
C9_EmptyListShortCircuits ==
    /\ (/\ Len(queries) >= 1
        /\ queries[1].ok
        /\ Len(filterMoved(closedResponse)) = 0)
       => /\ closedLastWeeksIssuesStr = <<>>
          /\ Len(queries) >= 2 => queries[2].kind = "week"
    /\ \A k \in 1..Len(queries) :
           (/\ queries[k].kind = "overdue"
            /\ queries[k].ok
            /\ Len(weekResponse) + Len(overdueResponse) = 0)
           => (toCloseWeekIssuesStr = <<>> /\ k = Len(queries))

\* both lists were empty (the closed one after the filter removed a moved
\* issue) and the run went on to read the difficulties with three queries made
C9_Witness ==
    /\ pc = "sendEmail"
    /\ Len(closedResponse) = 1
    /\ Len(queries) = 3
    /\ queries[3].kind = "overdue"


\* the blocks formatGroupedIssues holds: the finished ones and the current one
Blocks == issuesStrs \o (IF pc = "fetchMergeRequest" THEN <<issueStr>> ELSE <<>>)

\* C11 (Spec): a group whose project identifier is missing from the mapping
\* fetchProjectNameMap returned is rendered all the same, with the empty
\* string as project name; every group the loop has visited has its block,
\* and the process does not die inside formatGroupedIssues unless a query failed.
C11_AbsentProjectRendersWithEmptyName ==
    /\ pc \in {"fetchMergeRequest", "return"} =>
           /\ \A b \in 1..Len(Blocks) :
                  /\ Blocks[b][1].kind = "project"
                  /\ Blocks[b][1].id \in DOMAIN groupedIssues
                  /\ Blocks[b][1].name =
                         IF Blocks[b][1].id \in DOMAIN projectNameMap
                         THEN projectNameMap[Blocks[b][1].id] ELSE ""
           /\ {Blocks[b][1].id : b \in 1..Len(Blocks)} = DOMAIN groupedIssues \ pending
           /\ Len(Blocks) = Cardinality(DOMAIN groupedIssues \ pending)
    /\ (pc = "fatal" /\ Failed = {}) => groupedIssues = EmptyMap

\* a report was sent whose closed-issues section has a block of project 2,
\* which the mapping did not hold, under an empty name
C11_Witness ==
    /\ pc = "done"
    /\ \E k \in LinesOf(closedLastWeeksIssuesStr, "project") :
           closedLastWeeksIssuesStr[k].id = 2 /\ closedLastWeeksIssuesStr[k].name = ""


----------------------------------------------------------------------------
(* formatGroupedIssues twice on the same upstream answers. *)

\* The orders in which `for group, issues := range groupedIssues` may visit
\* the keys: the Go specification leaves the iteration order of a map
\* unspecified and the runtime varies it from one range statement to the next.
RangeOrders(S) ==
    {o \in [1..Cardinality(S) -> S] :
        \A a, b \in 1..Cardinality(S) : a # b => o[a] # o[b]}

\* The inner loop over one group's issues from the k-th on: the issue's lines
\* and the line of the merge request fetchIssueLastMergeRequest finds in mrs.
RECURSIVE groupIssuesStr(_, _, _)
groupIssuesStr(groupIssues, k, mrs) ==
    IF k > Len(groupIssues) THEN <<>>
    ELSE issueLines(groupIssues[k])
         \o mergeRequestLines(lastMergeRequest(groupIssues[k], mrs))
         \o groupIssuesStr(groupIssues, k + 1, mrs)

\* The outer loop, visiting the groups in the given order; the joined blocks.
RECURSIVE formatGroupedIssues(_, _, _, _)
formatGroupedIssues(grouped, names, mrs, order) ==
    IF order = <<>> THEN <<>>
    ELSE projectHeader(names, Head(order))
         \o groupIssuesStr(grouped[Head(order)], 1, mrs)
         \o formatGroupedIssues(grouped, names, mrs, Tail(order))

\* issues of either project, with either title, with and without a due date
RenderIssueFields ==
    {<<p, 0, t, d>> : p \in ProjectIDs, t \in {TitleFix42, TitleOther}, d \in {0, 5}}

\* input: the issues, the project names and the assignee's open merge requests
RenderInit ==
    /\ PipelineInit
    /\ input \in {<<iss, names, mrs>> :
                    iss \in IssueLists(0, RenderIssueFields, MaxIssues),
                    names \in ProjectLists,
                    mrs \in MRResponses}
    /\ output = <<>>

\* one run after another; each appends the text it rendered
FormatGroupedIssues ==
    /\ Len(output) < 2
    /\ LET grouped == groupIssuesByProject(input[1])
       IN  \E order \in RangeOrders(nonEmptyGroups(grouped)) :
              output' = Append(output,
                               formatGroupedIssues(grouped, input[2], input[3], order))
    /\ UNCHANGED <<input, pipelineVars>>

RenderSpec == RenderInit /\ [][FormatGroupedIssues]_vars

\* C12 (RenderSpec): two runs of formatGroupedIssues given the same issues, the
\* same project names and the same merge requests produce the same text,
\* the order of the project blocks included.
C12_RenderingIsDeterministic == Len(output) = 2 => output[1] = output[2]


----------------------------------------------------------------------------
(* readAndFormatMainDifficulties on a recorded standard input. *)

\* What ReadString may return: the lines of Spec, more blank and non-blank
\* lines, the end of the input with and without bytes left.
DiffReads ==
    StdinLines \cup {StdinEOF}
    \cup {<<9, 10>>,                             \* "\t\n"
          <<32, 115, 108, 111, 119, 32, 10>>,    \* " slow \n"
          <<104, 97, 114, 100>>}                 \* "hard", then the input ends

\* What the upstream service answered before standard input is read:
\* nothing at all, or one closed issue and one issue due this week.
DiffScenarios ==
    {[closed |-> <<>>, week |-> <<>>],
     [closed |-> <<Issue(1, 1, 0, TitleFix42, 0)>>,
      week |-> <<Issue(11, 2, 0, TitleFix42, OpenDueDate(2))>>]}

\* The text and the queries of one section: its issues under the names of
\* both projects, no merge request open.
scenarioSection(s, iss) ==
    IF Len(iss) = 0 THEN <<>>
    ELSE sectionText(s, 1, <<formatGroupedIssues(groupIssuesByProject(iss),
                                                 [p \in ProjectIDs |-> ProjectName(p)],
                                                 <<>>, <<iss[1].ProjectID>>)>>)

scenarioQueries(iss) ==
    IF Len(iss) = 0 THEN <<>>
    ELSE <<Query("projects", TRUE), QueryAbout("mergeRequests", TRUE, iss[1].ID)>>

\* main has both issue sections in hand and calls readAndFormatMainDifficulties
AtReadDifficulties(sc) ==
    /\ pc = "readDifficulties"
    /\ sec = "toClose"
    /\ weeks = 1
    /\ closedResponse = sc.closed
    /\ weekResponse = sc.week
    /\ overdueResponse = <<>>
    /\ issues = <<>>
    /\ groupedIssues = EmptyMap
    /\ pending = {}
    /\ group = 0
    /\ j = 0
    /\ projectNameMap = EmptyMap
    /\ issueStr = <<>>
    /\ issuesStrs = <<>>
    /\ mrIssue = NilIssue
    /\ mrResponse = <<>>
    /\ mergeRequest = NilMR
    /\ closedLastWeeksIssuesStr = scenarioSection("closed", sc.closed)
    /\ toCloseWeekIssuesStr = scenarioSection("toClose", sc.week)
    /\ difficulties = <<>>
    /\ mainDifficulties = <<>>
    /\ sent = <<>>
    /\ queries = <<Query("closed", TRUE)>> \o scenarioQueries(sc.closed)
                 \o <<Query("week", TRUE), Query("overdue", TRUE)>>
                 \o scenarioQueries(sc.week)

DiffInit ==
    /\ \E sc \in DiffScenarios : AtReadDifficulties(sc)
    /\ input = <<>>
    /\ output = <<>>

\* one turn of the loop; input records what ReadString returned
ReadStringRecorded ==
    /\ pc = "readDifficulties"
    /\ \E difficulty \in DiffReads :
          /\ readDifficulty(difficulty)
          /\ input' = Append(input, difficulty)
    /\ UNCHANGED output

DiffNext ==
    \/ ReadStringRecorded
    \/ (SendEmail /\ UNCHANGED fnVars)

DiffSpec == DiffInit /\ [][DiffNext]_vars

\* a line with something other than white space on it
NonBlank(line) == \E k \in 1..Len(line) : ~IsSpace(line[k])

\* the blank line that ends the free-text input has been read
InputEnded ==
    /\ input # <<>>
    /\ ~readErr(input[Len(input)])
    /\ ~NonBlank(input[Len(input)])

\* C13 (DiffSpec): once the blank line that ends the free-text input is read,
\* the difficulties section is the heading, one bullet for each non-blank line
\* of the input in the order read, and the closing blank line; it is the
\* empty text when the input held no non-blank line.
C13_OneBulletPerNonBlankLine ==
    InputEnded =>
        LET nonBlank == SelectSeq(input, NonBlank)
        IN  IF nonBlank = <<>> THEN mainDifficulties = <<>>
            ELSE /\ Len(mainDifficulties) = Len(nonBlank) + 2
                 /\ mainDifficulties[1].kind = "difficultiesTitle"
                 /\ \A k \in 1..Len(nonBlank) :
                        /\ mainDifficulties[k + 1].kind = "bullet"
                        /\ mainDifficulties[k + 1].title = nonBlank[k]
                 /\ mainDifficulties[Len(mainDifficulties)] = BlankLine

\* two different non-blank lines, then a line of white space only: two bullets
C13_Witness ==
    /\ InputEnded
    /\ Len(input) = 3
    /\ input[1] # input[2]
    /\ NonBlank(input[3]) = FALSE /\ input[3] # <<10>>
    /\ Cardinality(LinesOf(mainDifficulties, "bullet")) = 2

\* only a blank line was typed: no section
C13_WitnessAllBlank == InputEnded /\ Len(input) = 1 /\ mainDifficulties = <<>>


\* the three sections main concatenates
Sections == <<closedLastWeeksIssuesStr, toCloseWeekIssuesStr, mainDifficulties>>

\* a text that does not begin with a blank line and ends with exactly one
WellDelimited(text) ==
    /\ Len(text) >= 2
    /\ text[1] # BlankLine
    /\ text[Len(text)] = BlankLine
    /\ text[Len(text) - 1] # BlankLine

\* C14 (Spec): every section that is not empty begins with its heading, not
\* with a blank line, and ends with exactly one blank line; in the body of
\* the e-mail every heading but the first has exactly one blank line before it,
\* and the body ends with exactly one blank line.
C14_SectionsDelimitedByOneBlankLine ==
    /\ \A s \in 1..3 : Sections[s] # <<>> => WellDelimited(Sections[s])
    /\ sent # <<>> =>
           LET body == sent[1]
           IN  /\ body # <<>> => WellDelimited(body)
               /\ \A k \in 2..Len(body) :
                      body[k].kind \in TitleKinds =>
                          /\ body[k - 1] = BlankLine
                          /\ k > 2 /\ body[k - 2] # BlankLine

\* an e-mail with all three sections was sent
C14_Witness ==
    /\ pc = "done"
    /\ \A s \in 1..3 : Sections[s] # <<>>
    /\ Len(sent[1]) = Len(Sections[1]) + Len(Sections[2]) + Len(Sections[3])


\* the blocks of the groups the range loop has entered, in the order entered
Entered ==
    issuesStrs \o (IF pc # "return" /\ issueStr # <<>> THEN <<issueStr>> ELSE <<>>)

\* the identifiers of the issues of the groups entered, group after group
RECURSIVE IssuesOfBlocks(_)
IssuesOfBlocks(blocks) ==
    IF blocks = <<>> THEN <<>>
    ELSE [k \in 1..Len(groupedIssues[Head(blocks)[1].id]) |->
              groupedIssues[Head(blocks)[1].id][k].ID]
         \o IssuesOfBlocks(Tail(blocks))

\* the issues of the merge-request queries made since the last project query
AskedAbout ==
    LET last == Max({0} \cup {k \in 1..Len(queries) : queries[k].kind # "mergeRequests"})
    IN  [k \in 1..(Len(queries) - last) |-> queries[last + k].issue]

CountKind(kind) == Cardinality({k \in 1..Len(queries) : queries[k].kind = kind})

\* Inside formatGroupedIssues the merge-request queries made so far are about
\* the issues of the groups entered, each group in its own order, none
\* skipped, none asked twice, up to the issue the loop stands at.
C15_InGroupOrder ==
    groupedIssues # EmptyMap =>
        LET expected == IssuesOfBlocks(Entered)
        IN  /\ Len(AskedAbout) <= Len(expected)
            /\ AskedAbout = SubSeq(expected, 1, Len(AskedAbout))
            /\ pc = "return" => AskedAbout = expected
            /\ pc = "fetchMergeRequest" =>
                   Len(AskedAbout) = Len(expected) - Len(groupedIssues[group]) + j

\* A step answers at most one query and happens before sendEmail is invoked;
\* the step that invokes sendEmail comes after the three issue queries, a
\* project query for each issue section and a merge-request query for each
\* issue line of the body, all of them answered with success, and after the
\* free-text input was read to its end.
C15_OneStepAtATime ==
    /\ sent = <<>>
    /\ \/ queries' = queries
       \/ \E q \in {queries'[Len(queries')]} : queries' = Append(queries, q)
    /\ sent' # <<>> =>
           /\ pc = "sendEmail"
           /\ queries' = queries /\ Failed = {}
           /\ \A kind \in {"closed", "week", "overdue"} : CountKind(kind) = 1
           /\ CountKind("projects") =
                  Cardinality({k \in 1..Len(sent'[1]) :
                                  sent'[1][k].kind \in {"closedTitle", "toCloseTitle"}})
           /\ CountKind("mergeRequests") = Cardinality(LinesOf(sent'[1], "issue"))
           /\ mainDifficulties = formatMainDifficulties(difficulties)

\* C15 (Spec): execution is sequential. No step answers more than one upstream
\* query; inside a project group the merge-request queries are made one issue
\* at a time in the order of the group's issues; sendEmail is invoked only
\* after every upstream query and the free-text input are complete, and
\* nothing happens after it.
C15_StrictlySequential == [][C15_OneStepAtATime /\ C15_InGroupOrder']_vars

\* an e-mail went out after merge-request queries about both issues of one
\* project group and a line of free text
C15_Witness ==
    /\ pc = "done"
    /\ CountKind("mergeRequests") >= 2
    /\ \E k \in 1..(Len(queries) - 1) :
           /\ queries[k].kind = "mergeRequests" /\ queries[k + 1].kind = "mergeRequests"
           /\ queries[k].issue < queries[k + 1].issue
    /\ difficulties # <<>>


\* the lines of a text at which the issue with the given identifier is named
IssueLinesOf(text, id) == {k \in LinesOf(text, "issue") : text[k].id = id}

KindAt(text, k) == IF k \in 1..Len(text) THEN text[k].kind ELSE "end"

\* C16 (RenderSpec): in the text formatGroupedIssues renders, every issue has
\* exactly one title line; the next line is its due-date line if and only if
\* the issue has a due date; after these comes its merge-request line if and
\* only if fetchIssueLastMergeRequest returned a merge request for the issue,
\* naming that merge request; no second merge-request line follows.
C16_OneTitleLineOptionalDueAndMergeRequest ==
    \A r \in 1..Len(output) :
        LET text == output[r]
        IN  /\ Cardinality(LinesOf(text, "issue")) = Len(input[1])
            /\ Cardinality(LinesOf(text, "due")) =
                   Cardinality({i \in 1..Len(input[1]) : input[1][i].DueDate # 0})
            /\ Cardinality(LinesOf(text, "mr")) =
                   Cardinality({i \in 1..Len(input[1]) :
                                   lastMergeRequest(input[1][i], input[3]) # NilMR})
            /\ \A i \in 1..Len(input[1]) :
                   LET issue == input[1][i]
                       mr == lastMergeRequest(issue, input[3])
                   IN  /\ Cardinality(IssueLinesOf(text, issue.ID)) = 1
                       /\ \A k \in IssueLinesOf(text, issue.ID) :
                              LET m == IF issue.DueDate # 0 THEN k + 2 ELSE k + 1
                                  n == IF mr # NilMR THEN m + 1 ELSE m
                              IN  /\ text[k].title = issue.Title
                                  /\ KindAt(text, k + 1) = "due" <=> issue.DueDate # 0
                                  /\ issue.DueDate # 0 => text[k + 1].due = issue.DueDate
                                  /\ KindAt(text, m) = "mr" <=> mr # NilMR
                                  /\ mr # NilMR => text[m].id = mr.ID
                                  /\ KindAt(text, n) \in {"issue", "project", "end"}

\* a text with an issue that has a due date and a merge request, and another
\* issue that has neither
C16_Witness ==
    /\ Len(output) >= 1
    /\ \E k \in LinesOf(output[1], "issue") :
           KindAt(output[1], k + 1) = "due" /\ KindAt(output[1], k + 2) = "mr"
    /\ \E k \in LinesOf(output[1], "issue") :
           KindAt(output[1], k + 1) \notin {"due", "mr"}


----------------------------------------------------------------------------
(* The loop of fetchClosedLastWeeksIssues, one turn at a time. *)

\* One turn of the loop body on the slice iss at index i, then i++.
movedLoopTurn(iss, i) ==
    IF iss[i + 1].MovedToID # 0
    THEN <<slicesDelete(iss, i, i + 1), i + 1>>
    ELSE <<iss, i + 1>>

\* input: the upstream list; output: the slice `issues` and the index i
FilterLoopInit ==
    /\ PipelineInit
    /\ input \in IssueLists(0, ClosedIssueFields, MaxIssues)
    /\ output = <<input, 0>>

\* `i < len(issues)` holds: the loop takes another turn
FilterLoopTurn ==
    /\ output[2] < Len(output[1])
    /\ output' = movedLoopTurn(output[1], output[2])
    /\ UNCHANGED <<input, pipelineVars>>

\* the loop is sequential code: while its condition holds, the next turn is taken
FilterLoopSpec ==
    FilterLoopInit /\ [][FilterLoopTurn]_vars /\ WF_vars(FilterLoopTurn)

Unmoved(issue) == issue.MovedToID = 0

\* `i < len(issues)` fails: the loop is left and `issues` is returned
FilterLoopDone == ~(output[2] < Len(output[1]))

\* the slice holds elements of the upstream list in the upstream order (the
\* k-th issue of the upstream list has identifier k), the unmoved ones all
IsOrderedSubsequence(out) ==
    /\ \A k \in 1..Len(out) : out[k].ID \in 1..Len(input) /\ out[k] = input[out[k].ID]
    /\ \A a, b \in 1..Len(out) : a < b => out[a].ID < out[b].ID
    /\ SelectSeq(out, Unmoved) = SelectSeq(input, Unmoved)

\* C17 (FilterLoopSpec): at every turn of the moved-to filter loop the slice is
\* an order-preserving subsequence of the upstream list that still holds every
\* issue whose MovedToID is zero; the loop terminates, and what it returns is
\* what fetchClosedLastWeeksIssues returns.
C17_FilterKeepsClosedIssuesInOrder ==
    /\ [](IsOrderedSubsequence(output[1]))
    /\ [](FilterLoopDone => output[1] = filterMoved(input))
    /\ <>FilterLoopDone

\* the loop has ended on a list of three from whose middle it removed a moved
\* issue, keeping the unmoved issues around it
C17_Witness ==
    /\ FilterLoopDone
    /\ Len(input) = 3 /\ ~Unmoved(input[2])
    /\ output[1] = <<input[1], input[3]>>


\* the free-text input ended, or could not be read, before a blank line
InputBrokeOff == input # <<>> /\ readErr(input[Len(input)])

C18_WitnessNoInput == input = <<StdinEOF>> /\ pc = "fatal"


----------------------------------------------------------------------------
(* From the free-text input to the e-mail, the process kept running. *)

\* main is sequential code: once readAndFormatMainDifficulties has returned,
\* the call of sendEmail is made.
DiffFairSpec == DiffSpec /\ WF_vars(SendEmail /\ UNCHANGED fnVars)

\* C19 (DiffFairSpec): in a run whose upstream queries were all answered with
\* success, once the blank line that ends the free-text input is read
\* sendEmail is invoked, with the concatenation of the three sections, also
\* when all three are empty; it is invoked only then and never a second
\* time, in any run.
C19_SendEmailExactlyOnce ==
    /\ [](Len(sent) <= 1)
    /\ [](sent # <<>> =>
             /\ InputEnded /\ Failed = {}
             /\ sent[1] = closedLastWeeksIssuesStr \o toCloseWeekIssuesStr
                          \o mainDifficulties)
    /\ [](pc = "done" => Len(sent) = 1)
    /\ ((InputEnded /\ Failed = {}) ~> Len(sent) = 1)

\* nothing to report and nothing typed: an e-mail with an empty body went out
C19_Witness ==
    /\ InputEnded /\ Failed = {}
    /\ pc = "done"
    /\ sent = <<<<>>>>

====
